---- MODULE Spec2Model ----
(***************************************************************************)
(* A model of analysis_utils.py: load_dataset, group_dataset, the          *)
(* effective (second) visualize_dataset and convert_area.                  *)
(*                                                                         *)
(* Every call is one behaviour: Init binds the arguments of one call (and  *)
(* the caller's table and the file system it runs against), and one action *)
(* per function runs the whole body and leaves the outcome (return value,  *)
(* raised error, charts shown, files read, the caller's table afterwards)  *)
(* in the state.  Nothing persists between calls in the program, so calls  *)
(* are not chained.                                                        *)
(***************************************************************************)
EXTENDS Integers, Sequences, FiniteSets, TLC

VARIABLES
    op,         \* the function called
    pc,         \* "call" before the body has run, "done" after
    csv_path,   \* argument csv_path (None or a path)
    df,         \* argument df (None or a reference into heap)
    group_by,   \* argument group_by (None or a string)
    value,      \* argument value of convert_area (a binary64)
    from_unit,  \* argument from_unit (a string, as a sequence of characters)
    to_unit,    \* argument to_unit
    heap,       \* the DataFrame objects: reference -> table (or Unallocated)
    before,     \* the caller's table as it was when the call was made
    reads,      \* the paths handed to pd.read_csv, in order
    charts,     \* the charts plt.show() has displayed, in order
    error,      \* the exception the call raised, or NoError
    result      \* the value the call returned, or NoResult

vars == <<op, pc, csv_path, df, group_by, value, from_unit, to_unit,
          heap, before, reads, charts, error, result>>

None == "None"
NoError == "no error"
NoResult == [kind |-> "nothing"]
KeyError == "KeyError"

(***************************************************************************)
(* Python's float is IEEE-754 binary64.  A finite float is                 *)
(* (-1)^s * m * 2^e with m < 2^53, kept canonical: 2^52 <= m (normal) or   *)
(* e = EMin (subnormal or zero).  Mantissas and their products do not fit  *)
(* TLC's 32-bit integers, so a natural number is NLimbs limbs of LimbBits  *)
(* bits, least significant first.                                          *)
(***************************************************************************)
LimbBits == 24
NLimbs == 5
MantBits == 53
EMin == -1074
EMax == 971

Limb == 2^LimbBits
BZero == <<0, 0, 0, 0, 0>>

\* n in 0 .. 2^31 - 1
BOfInt(n) == <<n % Limb, n \div Limb, 0, 0, 0>>

RECURSIVE BPow2From(_, _)
BPow2From(k, i) ==
    IF i > NLimbs THEN <<>>
    ELSE <<IF i = (k \div LimbBits) + 1 THEN 2^(k % LimbBits) ELSE 0>> \o BPow2From(k, i + 1)

BPow2(k) == BPow2From(k, 1)

RECURSIVE BAddFrom(_, _, _, _)
BAddFrom(a, b, i, c) ==
    IF i > NLimbs THEN <<>>
    ELSE LET s == a[i] + b[i] + c
         IN  <<s % Limb>> \o BAddFrom(a, b, i + 1, s \div Limb)

BAdd(a, b) == BAddFrom(a, b, 1, 0)

RECURSIVE BSubFrom(_, _, _, _)
BSubFrom(a, b, i, c) ==
    IF i > NLimbs THEN <<>>
    ELSE LET s == a[i] - b[i] - c
         IN  <<(s + Limb) % Limb>> \o BSubFrom(a, b, i + 1, IF s < 0 THEN 1 ELSE 0)

\* a - b for a >= b
BSub(a, b) == BSubFrom(a, b, 1, 0)

\* a < b, compared from the most significant limb down
RECURSIVE BLessFrom(_, _, _)
BLessFrom(a, b, i) ==
    IF i = 0 THEN FALSE
    ELSE IF a[i] # b[i] THEN a[i] < b[i]
    ELSE BLessFrom(a, b, i - 1)

BLess(a, b) == BLessFrom(a, b, NLimbs)

BDouble(a) == BAdd(a, a)

RECURSIVE BHalfFrom(_, _)
BHalfFrom(a, i) ==
    IF i > NLimbs THEN <<>>
    ELSE <<(a[i] \div 2) + (IF i < NLimbs THEN (a[i + 1] % 2) * (Limb \div 2) ELSE 0)>>
         \o BHalfFrom(a, i + 1)

BHalf(a) == BHalfFrom(a, 1)

BOdd(a) == a[1] % 2 = 1

BIsZero(a) == a = BZero

\* a * b by shift and add; a * b < 2^(NLimbs * LimbBits).  The loop state is
\* one record, so that every step works on evaluated limbs.
RECURSIVE BMulAcc(_)
BMulAcc(t) ==
    IF BIsZero(t.b) THEN t.acc
    ELSE BMulAcc([a |-> BDouble(t.a), b |-> BHalf(t.b),
                  acc |-> IF BOdd(t.b) THEN BAdd(t.acc, t.a) ELSE t.acc])

BMul(a, b) == BMulAcc([a |-> a, b |-> b, acc |-> BZero])

Fin(s, m, e) == [k |-> "fin", s |-> s, m |-> m, e |-> e]
Inf(s) == [k |-> "inf", s |-> s, m |-> BZero, e |-> 0]
Zero(s) == Fin(s, BZero, EMin)

IsZero(x) == x.k = "fin" /\ BIsZero(x.m)

\* the mantissa scaled up to MantBits bits, the exponent left unbounded
RECURSIVE NormUpLoop(_)
NormUpLoop(t) ==
    IF BLess(t.m, BPow2(MantBits - 1)) THEN NormUpLoop([m |-> BDouble(t.m), e |-> t.e - 1])
    ELSE t

NormUp(m, e) == NormUpLoop([m |-> m, e |-> e])

\* drop low bits until the mantissa fits and the exponent is in range;
\* r is the last bit dropped, st whether any bit dropped before it was set
RECURSIVE ShiftDownLoop(_)
ShiftDownLoop(t) ==
    IF ~BLess(t.m, BPow2(MantBits)) \/ t.e < EMin
    THEN ShiftDownLoop([m |-> BHalf(t.m), e |-> t.e + 1, r |-> t.m[1] % 2,
                        st |-> t.st \/ t.r = 1])
    ELSE t

ShiftDown(m, e, r, st) == ShiftDownLoop([m |-> m, e |-> e, r |-> r, st |-> st])

\* round to nearest, ties to even; overflow gives infinity
RoundPack(s, m, e, sticky) ==
    LET d == ShiftDown(m, e, 0, sticky)
        up == d.r = 1 /\ (d.st \/ BOdd(d.m))
        m1 == IF up THEN BAdd(d.m, BOfInt(1)) ELSE d.m
        carry == m1 = BPow2(MantBits)
        m2 == IF carry THEN BPow2(MantBits - 1) ELSE m1
        e2 == IF carry THEN d.e + 1 ELSE d.e
    IN  IF e2 > EMax THEN Inf(s) ELSE Fin(s, m2, e2)

Xor(s, t) == (s + t) % 2

\* x * y; y finite and not zero
FMul(x, y) ==
    IF x.k = "inf" THEN Inf(Xor(x.s, y.s))
    ELSE IF IsZero(x) THEN Zero(Xor(x.s, y.s))
    ELSE LET a == NormUp(x.m, x.e)
             b == NormUp(y.m, y.e)
         IN  RoundPack(Xor(x.s, y.s), BMul(a.m, b.m), a.e + b.e, FALSE)

\* restoring division: after n steps q = floor(a * 2^(n-1) / b), r the rest
RECURSIVE DivSteps(_)
DivSteps(t) ==
    IF t.n = 0 THEN t
    ELSE IF BLess(t.r, t.b)
         THEN DivSteps([r |-> BDouble(t.r), b |-> t.b, q |-> BDouble(t.q), n |-> t.n - 1])
         ELSE DivSteps([r |-> BDouble(BSub(t.r, t.b)), b |-> t.b,
                        q |-> BAdd(BDouble(t.q), BOfInt(1)), n |-> t.n - 1])

\* x / y; y finite and not zero
FDiv(x, y) ==
    IF x.k = "inf" THEN Inf(Xor(x.s, y.s))
    ELSE IF IsZero(x) THEN Zero(Xor(x.s, y.s))
    ELSE LET a == NormUp(x.m, x.e)
             b == NormUp(y.m, y.e)
             d == DivSteps([r |-> a.m, b |-> b.m, q |-> BZero, n |-> MantBits + 3])
         IN  RoundPack(Xor(x.s, y.s), d.q, a.e - b.e - (MantBits + 2), ~BIsZero(d.r))

\* int -> float for 0 <= n < 2^31 (exact)
IntToFloat(n) ==
    IF n = 0 THEN Zero(0)
    ELSE LET a == NormUp(BOfInt(n), 0) IN Fin(0, a.m, a.e)

\* a natural below 2^53 held in limbs -> float (exact)
BigToFloat(b) ==
    IF BIsZero(b) THEN Zero(0)
    ELSE LET a == NormUp(b, 0) IN Fin(0, a.m, a.e)

(***************************************************************************)
(* DataFrames.  A table has a set of columns, and per column a dtype, the  *)
(* categories of a categorical column, and the values row by row.  A       *)
(* missing value (NaN) is NA.  DataFrame objects live in heap, so that an  *)
(* assignment to a column of the caller's object is seen by the caller.    *)
(***************************************************************************)
NA == "NaN"
Unallocated == "unallocated"
CallerRef == "df of the caller"
ReadRef == "df read from csv_path"
Refs == {CallerRef, ReadRef}
EmptyHeap == [r \in Refs |-> Unallocated]

NRows(t) == IF t.cols = {} THEN 0 ELSE Len(t.data[CHOOSE c \in t.cols : TRUE])

ColumnValues(t, c) == { t.data[c][i] : i \in 1..NRows(t) }

ConfigError == "ValueError: Provide either a CSV file path or a DataFrame."
GroupByError == "ValueError: group_by must be a column in DataFrame."
VizGroupByError == "ValueError: group_by must be 'Ecosystem', 'Season', or None"
FileNotFoundError == "FileNotFoundError"
UnpackError == "ValueError: not enough values to unpack"

\* what pd.read_csv finds: one file, text columns read as object, an empty
\* field read as NaN
CsvTable ==
    [cols |-> {"Ecosystem", "Season", "P_conc", "Ca_conc", "flux_gm2yr"},
     dtype |-> [c \in {"Ecosystem", "Season", "P_conc", "Ca_conc", "flux_gm2yr"} |->
                   IF c \in {"Ecosystem", "Season"} THEN "object" ELSE "float64"],
     cats |-> [c \in {"Ecosystem", "Season", "P_conc", "Ca_conc", "flux_gm2yr"} |-> {}],
     data |-> [c \in {"Ecosystem", "Season", "P_conc", "Ca_conc", "flux_gm2yr"} |->
                   CASE c = "Ecosystem" -> <<"forest", NA, "wetland">>
                     [] c = "Season" -> <<"dry", "dry", "dry">>
                     [] OTHER -> <<"1.5", "0.5", "1.5">>]]

Files == ("data.csv" :> CsvTable)

\* if df is None: if csv_path is None: raise ...; df = pd.read_csv(csv_path)
\* (the same four lines open load_dataset, group_dataset and visualize_dataset)
LoadTable_PathFirst(path, d, h) ==
    IF path # None
    THEN IF path \notin DOMAIN Files
         THEN [error |-> FileNotFoundError, ref |-> None, heap |-> h, reads |-> <<path>>]
         ELSE [error |-> NoError, ref |-> ReadRef,
               heap |-> [h EXCEPT ![ReadRef] = Files[path]], reads |-> <<path>>]
    ELSE IF d = None
         THEN [error |-> ConfigError, ref |-> None, heap |-> h, reads |-> <<>>]
         ELSE [error |-> NoError, ref |-> d, heap |-> h, reads |-> <<>>]
LoadTable(path, d, h) ==
    IF d = None
    THEN IF path = None
         THEN [error |-> ConfigError, ref |-> None, heap |-> h, reads |-> <<>>]
         ELSE IF path \notin DOMAIN Files
         THEN [error |-> FileNotFoundError, ref |-> None, heap |-> h, reads |-> <<path>>]
         ELSE [error |-> NoError, ref |-> ReadRef,
               heap |-> [h EXCEPT ![ReadRef] = Files[path]], reads |-> <<path>>]
    ELSE [error |-> NoError, ref |-> d, heap |-> h, reads |-> <<>>]

\* df[c] = df[c].astype("category"): the values stay, the categories are the
\* values that occur (NaN is no category); a categorical column stays as it is
AsCategory(t, c) ==
    IF t.dtype[c] = "category" THEN t
    ELSE [t EXCEPT !.dtype[c] = "category", !.cats[c] = ColumnValues(t, c) \ {NA}]

\* if "Ecosystem" in df.columns: ...; if "Season" in df.columns: ...
\* (the same four lines in load_dataset, group_dataset and visualize_dataset)
CoerceCategoricals_EcosystemOnly(t) ==
    IF "Ecosystem" \in t.cols THEN AsCategory(t, "Ecosystem") ELSE t
CoerceCategoricals(t) ==
    LET t1 == IF "Ecosystem" \in t.cols THEN AsCategory(t, "Ecosystem") ELSE t
    IN  IF "Season" \in t1.cols THEN AsCategory(t1, "Season") ELSE t1

Outcome(e, r, h, rd, ch) ==
    [error |-> e, result |-> r, heap |-> h, reads |-> rd, charts |-> ch]

DataFrame(ref) == [kind |-> "DataFrame", ref |-> ref]
PyNone == [kind |-> "None"]

\* the body of load_dataset
load_dataset(path, d, h) ==
    LET l == LoadTable(path, d, h)
    IN  IF l.error # NoError THEN Outcome(l.error, NoResult, l.heap, l.reads, <<>>)
        ELSE Outcome(NoError, DataFrame(l.ref),
                     [l.heap EXCEPT ![l.ref] = CoerceCategoricals(@)], l.reads, <<>>)

\* the truth value of group_by in "if group_by:": None and "" are false
Truthy(g) == g # None /\ g # ""

\* df.groupby(c, observed=...): the keys are the values that occur in c, or,
\* for a categorical c with observed=False, all its categories; rows whose
\* value is NaN are in no group (dropna=True is the default).  A group is
\* the set of its rows.
GroupBy_AllCategories(t, c, observed) ==
    LET keys == IF t.dtype[c] = "category" THEN t.cats[c] ELSE ColumnValues(t, c) \ {NA}
    IN  [k \in keys |-> { i \in 1..NRows(t) : t.data[c][i] = k }]
GroupBy(t, c, observed) ==
    LET keys == IF t.dtype[c] = "category" /\ ~observed
                THEN t.cats[c]
                ELSE ColumnValues(t, c) \ {NA}
    IN  [k \in keys |-> { i \in 1..NRows(t) : t.data[c][i] = k }]

GroupedFrame(ref, g, groups) == [kind |-> "GroupBy", ref |-> ref, by |-> g, groups |-> groups]

\* group_by not in df.columns
GroupByRejected_Never(g, t) == FALSE
GroupByRejected(g, t) == g \notin t.cols

\* the body of group_dataset; grouping by a name that is no column raises
\* KeyError
group_dataset_ValidateFirst(path, d, g, h) ==
    LET l == LoadTable(path, d, h)
    IN  IF l.error # NoError THEN Outcome(l.error, NoResult, l.heap, l.reads, <<>>)
        ELSE IF Truthy(g) /\ GroupByRejected(g, l.heap[l.ref])
        THEN Outcome(GroupByError, NoResult, l.heap, l.reads, <<>>)
        ELSE LET h2 == [l.heap EXCEPT ![l.ref] = CoerceCategoricals(@)]
             IN  IF Truthy(g)
                 THEN Outcome(NoError, GroupedFrame(l.ref, g, GroupBy(h2[l.ref], g, TRUE)),
                              h2, l.reads, <<>>)
                 ELSE Outcome(NoError, DataFrame(l.ref), h2, l.reads, <<>>)
group_dataset(path, d, g, h) ==
    LET l == LoadTable(path, d, h)
    IN  IF l.error # NoError THEN Outcome(l.error, NoResult, l.heap, l.reads, <<>>)
        ELSE LET h2 == [l.heap EXCEPT ![l.ref] = CoerceCategoricals(@)]
                 t == h2[l.ref]
             IN  IF Truthy(g)
                 THEN IF GroupByRejected(g, t)
                      THEN Outcome(GroupByError, NoResult, h2, l.reads, <<>>)
                      ELSE IF g \notin t.cols
                      THEN Outcome(KeyError, NoResult, h2, l.reads, <<>>)
                      ELSE Outcome(NoError, GroupedFrame(l.ref, g, GroupBy(t, g, TRUE)),
                                   h2, l.reads, <<>>)
                 ELSE Outcome(NoError, DataFrame(l.ref), h2, l.reads, <<>>)

\* group_by not in ["Ecosystem", "Season", None]
VizGroupByRejected_ByColumns(g, t) == g # None /\ g \notin t.cols
VizGroupByRejected(g, t) == g \notin {"Ecosystem", "Season", None}

Shown(e, ch) == [error |-> e, charts |-> ch]

BoxplotChart(column, by, keys) ==
    [kind |-> "boxplot", column |-> column, by |-> by, series |-> keys]
ScatterChart(x, y, by, keys) ==
    [kind |-> "scatter", x |-> x, y |-> y, by |-> by, series |-> keys]
AllRows == {"all rows"}

\* 1. if group_by: df.boxplot(column="flux_gm2yr", by=group_by); plt.show()
\* A missing column raises KeyError; pandas groups by=... with
\* observed=False and unpacks zip(*groups), which fails when there is no
\* group.  A chart is recorded when its plt.show() is reached.
Boxplot(t, g, shown) ==
    IF ~Truthy(g) THEN Shown(NoError, shown)
    ELSE IF "flux_gm2yr" \notin t.cols \/ g \notin t.cols THEN Shown(KeyError, shown)
    ELSE IF DOMAIN GroupBy(t, g, FALSE) = {} THEN Shown(UnpackError, shown)
    ELSE Shown(NoError,
               Append(shown, BoxplotChart("flux_gm2yr", g, DOMAIN GroupBy(t, g, FALSE))))

\* 2. and 3.: one scatter series per group of df.groupby(group_by), or one
\* series of all rows; then plt.show().  df.groupby(group_by) takes the
\* default observed=False; the columns are subscripted once per series.
Scatter(t, g, x, y, shown) ==
    IF Truthy(g)
    THEN IF g \notin t.cols THEN Shown(KeyError, shown)
         ELSE LET keys == DOMAIN GroupBy(t, g, FALSE)
              IN  IF keys # {} /\ ~({x, y} \subseteq t.cols) THEN Shown(KeyError, shown)
                  ELSE Shown(NoError, Append(shown, ScatterChart(x, y, g, keys)))
    ELSE IF ~({x, y} \subseteq t.cols) THEN Shown(KeyError, shown)
         ELSE Shown(NoError, Append(shown, ScatterChart(x, y, None, AllRows)))

\* the three plots in the order of the body; an exception ends the call
RenderCharts_ScattersSwapped(t, g) ==
    LET b == Boxplot(t, g, <<>>)
        s1 == IF b.error # NoError THEN b
              ELSE Scatter(t, g, "P_conc", "flux_gm2yr", b.charts)
    IN  IF s1.error # NoError THEN s1
        ELSE Scatter(t, g, "P_conc", "Ca_conc", s1.charts)
RenderCharts(t, g) ==
    LET b == Boxplot(t, g, <<>>)
        s1 == IF b.error # NoError THEN b
              ELSE Scatter(t, g, "P_conc", "Ca_conc", b.charts)
    IN  IF s1.error # NoError THEN s1
        ELSE Scatter(t, g, "P_conc", "flux_gm2yr", s1.charts)

\* the body of the second visualize_dataset, the one the name is bound to
visualize_dataset(path, d, g, h) ==
    LET l == LoadTable(path, d, h)
    IN  IF l.error # NoError THEN Outcome(l.error, NoResult, l.heap, l.reads, <<>>)
        ELSE IF VizGroupByRejected(g, l.heap[l.ref])
        THEN Outcome(VizGroupByError, NoResult, l.heap, l.reads, <<>>)
        ELSE LET h2 == [l.heap EXCEPT ![l.ref] = CoerceCategoricals(@)]
                 r == RenderCharts(h2[l.ref], g)
             IN  Outcome(r.error, IF r.error = NoError THEN PyNone ELSE NoResult,
                         h2, l.reads, r.charts)

(***************************************************************************)
(* Strings are sequences of one-character strings, so that str.lower()     *)
(* is computed character by character.                                     *)
(***************************************************************************)
UpperChars == <<"A", "B", "C", "D", "E", "F", "G", "H", "I", "J", "K", "L", "M",
                "N", "O", "P", "Q", "R", "S", "T", "U", "V", "W", "X", "Y", "Z">>
LowerChars == <<"a", "b", "c", "d", "e", "f", "g", "h", "i", "j", "k", "l", "m",
                "n", "o", "p", "q", "r", "s", "t", "u", "v", "w", "x", "y", "z">>

LowerChar(c) ==
    IF \E i \in DOMAIN UpperChars : UpperChars[i] = c
    THEN LowerChars[CHOOSE i \in DOMAIN UpperChars : UpperChars[i] = c]
    ELSE c

\* str.lower()
Lower(str) == [i \in 1..Len(str) |-> LowerChar(str[i])]

Str_m2 == <<"m", "2">>
Str_km2 == <<"k", "m", "2">>
Str_hectare == <<"h", "e", "c", "t", "a", "r", "e">>
Str_acre == <<"a", "c", "r", "e">>

\* the literal 4046.8564224: the binary64 nearest to 40468564224 / 10^7
AcreFactor ==
    FDiv(BigToFloat(BAdd(BMul(BOfInt(40468), BOfInt(1000000)), BOfInt(564224))),
         IntToFloat(10000000))

\* the dict factors_to_m2; its int values become floats when they meet a float
factors_to_m2 ==
    (Str_m2 :> IntToFloat(1)) @@ (Str_km2 :> IntToFloat(1000000))
    @@ (Str_hectare :> IntToFloat(10000)) @@ (Str_acre :> AcreFactor)

UnitError == "ValueError: Units must be one of: 'm2', 'km2', 'hectare', 'acre'"

Raise(e) == [error |-> e, result |-> NoResult]
Return(x) == [error |-> NoError, result |-> x]
Number(x) == [kind |-> "float", val |-> x]

\* from_unit = from_unit.lower(); to_unit = to_unit.lower()
NormalizeUnit(u) == Lower(u)

\* the guard of the raise: from_unit not in factors_to_m2 or to_unit not in ...
UnitRejected_FromOnly(f, t) == f \notin DOMAIN factors_to_m2
UnitRejected(f, t) == f \notin DOMAIN factors_to_m2 \/ t \notin DOMAIN factors_to_m2

\* value_in_m2 = value * factors_to_m2[from_unit]
ToSquareMeters_Divide(v, f) == FDiv(v, factors_to_m2[f])
ToSquareMeters(v, f) == FMul(v, factors_to_m2[f])

\* value_in_m2 / factors_to_m2[to_unit]
FromSquareMeters_Skipped(x, t) == x
FromSquareMeters(x, t) == FDiv(x, factors_to_m2[t])

\* the body of convert_area; a dict subscript with a missing key raises KeyError
convert_area(v, fu, tu) ==
    LET f == NormalizeUnit(fu)
        t == NormalizeUnit(tu)
    IN  IF UnitRejected(f, t) THEN Raise(UnitError)
        ELSE IF f \notin DOMAIN factors_to_m2 \/ t \notin DOMAIN factors_to_m2
             THEN Raise(KeyError)
        ELSE Return(Number(FromSquareMeters(ToSquareMeters(v, f), t)))

(***************************************************************************)
(* The calls of convert_area that are explored.                            *)
(***************************************************************************)
MaxValue == 3

\* 0.1, 1e308, 5e-324 (the smallest subnormal), 988.0708407112932,
\* 54.08978840788503, -2.5, and the integers 33 and 10000
SpecialValues ==
    { Fin(0, <<10066330, 10066329, 25, 0, 0>>, -56),
      Fin(0, <<15452320, 13431685, 17, 0, 0>>, 971),
      Fin(0, <<1, 0, 0, 0, 0>>, -1074),
      Fin(0, <<15684054, 14717204, 30, 0, 0>>, -43),
      Fin(0, <<12695179, 753199, 27, 0, 0>>, -47),
      Fin(1, <<0, 0, 20, 0, 0>>, -51),
      IntToFloat(33), IntToFloat(10000), Inf(0) }

Values == { IntToFloat(n) : n \in 0..MaxValue } \cup SpecialValues

Units ==
    { Str_m2, <<"M", "2">>, Str_km2, <<"K", "m", "2">>, Str_hectare,
      <<"H", "E", "C", "T", "A", "R", "E">>, Str_acre, <<"A", "c", "r", "e">>,
      <<"f", "u", "r", "l", "o", "n", "g">>, <<" ", "m", "2">>, <<>> }

InitArea ==
    /\ op = "convert_area"
    /\ pc = "call"
    /\ value \in Values
    /\ from_unit \in Units
    /\ to_unit \in Units
    /\ csv_path = None /\ df = None /\ group_by = None
    /\ heap = EmptyHeap /\ before = None
    /\ reads = <<>> /\ charts = <<>>
    /\ error = NoError /\ result = NoResult

ConvertArea ==
    /\ op = "convert_area" /\ pc = "call"
    /\ LET out == convert_area(value, from_unit, to_unit)
       IN  error' = out.error /\ result' = out.result
    /\ pc' = "done"
    /\ UNCHANGED <<op, csv_path, df, group_by, value, from_unit, to_unit,
                   heap, before, reads, charts>>

SpecArea == InitArea /\ [][ConvertArea]_vars

(***************************************************************************)
(* The calls of load_dataset, group_dataset and visualize_dataset that are *)
(* explored: the caller's table is any table of at most MaxRows rows over  *)
(* one of ColumnSets.                                                      *)
(***************************************************************************)
MaxRows == 3

EcosystemValues == {"forest", "wetland", NA}
EcosystemCategories == {"forest", "wetland"}
SeasonValues == {"dry", NA}

ColumnSets ==
    { {"Ecosystem", "Season", "P_conc", "Ca_conc", "flux_gm2yr"},
      {"Ecosystem", "P_conc", "Ca_conc", "flux_gm2yr"},
      {"P_conc", "Ca_conc", "flux_gm2yr"},
      {"Ecosystem", "Season", "P_conc", "Ca_conc"},
      {"Ecosystem", "flux_gm2yr"},
      {"", "P_conc"} }

\* a table over columns cs with n rows: eco and sea are the values of the
\* text columns, cat whether Ecosystem is categorical already (then with
\* both categories, observed or not); the numeric columns hold 1.5, 0.5, ...
MakeTable(cs, n, eco, sea, cat) ==
    [cols |-> cs,
     dtype |-> [c \in cs |-> CASE c = "Ecosystem" -> IF cat THEN "category" ELSE "object"
                               [] c \in {"Season", ""} -> "object"
                               [] OTHER -> "float64"],
     cats |-> [c \in cs |-> IF c = "Ecosystem" /\ cat THEN EcosystemCategories ELSE {}],
     data |-> [c \in cs |-> CASE c \in {"Ecosystem", ""} -> eco
                              [] c = "Season" -> sea
                              [] OTHER -> [i \in 1..n |-> IF i % 2 = 1 THEN "1.5" ELSE "0.5"]]]

Tables ==
    UNION { { MakeTable(cs, n, eco, sea, cat) :
                cs \in ColumnSets, eco \in [1..n -> EcosystemValues],
                sea \in [1..n -> SeasonValues], cat \in BOOLEAN } : n \in 0..MaxRows }

Paths == {None, "data.csv", "missing.csv", ""}
GroupBys == {None, "", "Ecosystem", "Season", "P_conc", "Biome"}

InitData ==
    /\ op \in {"load_dataset", "group_dataset", "visualize_dataset"}
    /\ pc = "call"
    /\ csv_path \in Paths
    /\ \/ df = None /\ before = None /\ heap = EmptyHeap
       \/ \E t \in Tables :
            /\ df = CallerRef /\ before = t
            /\ heap = [EmptyHeap EXCEPT ![CallerRef] = t]
    /\ group_by \in (IF op = "load_dataset" THEN {None} ELSE GroupBys)
    /\ value = Zero(0) /\ from_unit = <<>> /\ to_unit = <<>>
    /\ reads = <<>> /\ charts = <<>>
    /\ error = NoError /\ result = NoResult

Finish(out) ==
    /\ error' = out.error /\ result' = out.result /\ heap' = out.heap
    /\ reads' = out.reads /\ charts' = out.charts
    /\ pc' = "done"
    /\ UNCHANGED <<op, csv_path, df, group_by, value, from_unit, to_unit, before>>

LoadDataset ==
    /\ op = "load_dataset" /\ pc = "call"
    /\ Finish(load_dataset(csv_path, df, heap))

GroupDataset ==
    /\ op = "group_dataset" /\ pc = "call"
    /\ Finish(group_dataset(csv_path, df, group_by, heap))

VisualizeDataset ==
    /\ op = "visualize_dataset" /\ pc = "call"
    /\ Finish(visualize_dataset(csv_path, df, group_by, heap))

NextData == LoadDataset \/ GroupDataset \/ VisualizeDataset

SpecData == InitData /\ [][NextData]_vars

Init == InitArea \/ InitData
Next == ConvertArea \/ NextData
Spec == Init /\ [][Next]_vars

(***************************************************************************)
(* Claims about convert_area, checked under SpecArea.                      *)
(***************************************************************************)
AreaDone == op = "convert_area" /\ pc = "done"

\* case-insensitive comparison, stated without lower(): two characters are
\* the same letter when they are equal or the two cases of one letter
SameLetter(c, d) ==
    c = d \/ \E i \in DOMAIN UpperChars : {c, d} = {UpperChars[i], LowerChars[i]}

EqualIgnoringCase(u, w) ==
    Len(u) = Len(w) /\ \A i \in 1..Len(u) : SameLetter(u[i], w[i])

RecognizedUnits == {Str_m2, Str_km2, Str_acre, Str_hectare}

Recognized(u) == \E w \in RecognizedUnits : EqualIgnoringCase(u, w)

SameUnit == Recognized(from_unit) /\ EqualIgnoringCase(from_unit, to_unit)

\* whether x * y is a binary64 as it stands: no bit is rounded away and the
\* exponent is in range
ProductExact(x, y) ==
    \/ x.k = "inf"
    \/ IsZero(x)
    \/ LET a == NormUp(x.m, x.e)
           b == NormUp(y.m, y.e)
           d == ShiftDown(BMul(a.m, b.m), a.e + b.e, 0, FALSE)
       IN  d.r = 0 /\ ~d.st /\ d.e <= EMax

\* C1, as stated: for every value v and every recognized unit u, in any
\* letter case, convert_area(v, u, u) returns exactly v.
C1_IdentityAsStated ==
    (AreaDone /\ SameUnit) => (error = NoError /\ result = Number(value))

\* C1, amended: for every float v that is a number, convert_area(v, u, u)
\* returns exactly v when u is m2 and, for km2, hectare and acre, whenever
\* the product v * F[u] is exactly representable as a binary64.
C1_IdentityWhenProductExact ==
    (AreaDone /\ SameUnit
        /\ (EqualIgnoringCase(from_unit, Str_m2)
            \/ ProductExact(value, factors_to_m2[Lower(from_unit)])))
    => (error = NoError /\ result = Number(value))

\* C1 witness: 3 km2 to km2, the units in different letter cases, gives 3
C1_Witness ==
    /\ AreaDone
    /\ from_unit = <<"K", "m", "2">> /\ to_unit = Str_km2
    /\ value = IntToFloat(3)
    /\ result = Number(IntToFloat(3))

\* C2: convert_area fails with the validation error, and returns no number,
\* if and only if from_unit or to_unit, compared case-insensitively, is
\* outside {m2, km2, acre, hectare}, whichever of the two it is and for
\* every value.
C2_UnitErrorIffUnrecognized ==
    AreaDone =>
        /\ (error = UnitError) <=> (~Recognized(from_unit) \/ ~Recognized(to_unit))
        /\ (error = UnitError) => result = NoResult
        /\ (error # UnitError) => (error = NoError /\ result.kind = "float")

\* C2 witness: a recognized from_unit and to_unit "furlong" is rejected
C2_Witness ==
    /\ AreaDone
    /\ Recognized(from_unit)
    /\ to_unit = <<"f", "u", "r", "l", "o", "n", "g">>
    /\ error = UnitError /\ result = NoResult

\* the table of factors as the claim gives it
ClaimFactor(u) ==
    CASE EqualIgnoringCase(u, Str_m2) -> IntToFloat(1)
      [] EqualIgnoringCase(u, Str_km2) -> IntToFloat(1000000)
      [] EqualIgnoringCase(u, Str_hectare) -> IntToFloat(10000)
      [] EqualIgnoringCase(u, Str_acre) -> Fin(0, <<16723744, 10335868, 31, 0, 0>>, -41)

ClaimIntFactor(u) ==
    CASE EqualIgnoringCase(u, Str_m2) -> 1
      [] EqualIgnoringCase(u, Str_km2) -> 1000000
      [] EqualIgnoringCase(u, Str_hectare) -> 10000

OracleInts == (0..MaxValue) \cup {33, 10000}

LoadDone == op = "load_dataset" /\ pc = "done"
GroupDone == op = "group_dataset" /\ pc = "done"
VizDone == op = "visualize_dataset" /\ pc = "done"

\* a table was supplied, or csv_path names a file that can be read
Loadable == df # None \/ csv_path \in DOMAIN Files

\* the table the call works on, as it was before the call
InputTable == IF df # None THEN before ELSE Files[csv_path]

CategoricalColumns == {"Ecosystem", "Season"}

\* C4: load_dataset fails with the configuration error exactly when both
\* the table and the path are absent; with a table supplied nothing is read
\* from the path, present or not; with only a path supplied that path is
\* read and the table returned is the one read from it.
C4_ConfigErrorAndSource ==
    LoadDone =>
        /\ (error = ConfigError) <=> (df = None /\ csv_path = None)
        /\ df # None => (reads = <<>> /\ error = NoError /\ result = DataFrame(df))
        /\ (df = None /\ csv_path # None) =>
              /\ reads = <<csv_path>>
              /\ error = NoError =>
                    /\ result.kind = "DataFrame"
                    /\ result.ref # CallerRef
                    /\ heap[result.ref].data = Files[csv_path].data

\* C4 witness: a table and a readable path are both supplied, nothing is read
C4_Witness ==
    /\ LoadDone
    /\ df # None /\ csv_path = "data.csv"
    /\ reads = <<>> /\ error = NoError

\* C5: load_dataset returns a table in which each of Ecosystem and Season
\* that is present is categorical, and in which every other column, the set
\* of columns and the rows are those of the input; a table with neither
\* column is returned unchanged.
C5_OnlyCategoricalsCoerced ==
    (LoadDone /\ error = NoError) =>
        /\ result.kind = "DataFrame"
        /\ LET out == heap[result.ref]
           IN  /\ out.cols = InputTable.cols
               /\ \A c \in out.cols \cap CategoricalColumns : out.dtype[c] = "category"
               /\ \A c \in out.cols \ CategoricalColumns :
                     /\ out.dtype[c] = InputTable.dtype[c]
                     /\ out.cats[c] = InputTable.cats[c]
               /\ out.data = InputTable.data
               /\ (out.cols \cap CategoricalColumns = {}) => out = InputTable

\* C5 witness: a table whose text columns were object comes back with both
\* categorical and its numeric column as it was
C5_Witness ==
    /\ LoadDone /\ error = NoError /\ df # None
    /\ CategoricalColumns \subseteq before.cols
    /\ before.dtype["Ecosystem"] = "object" /\ before.dtype["Season"] = "object"
    /\ NRows(before) = MaxRows
    /\ heap[df].dtype["Ecosystem"] = "category" /\ heap[df].dtype["Season"] = "category"
    /\ heap[df].dtype["P_conc"] = "float64"

\* C6, as stated: with a loadable table, every group_by other than the
\* absent default that is no column of the table ends group_dataset in the
\* validation error, and nothing is returned.
C6_AsStated ==
    (GroupDone /\ Loadable /\ group_by # None /\ group_by \notin InputTable.cols)
    => (error = GroupByError /\ result = NoResult)

\* C6, amended: with a loadable table, every non-empty group_by that is no
\* column of the table ends group_dataset in the validation error, and
\* nothing is returned (group_by = "" counts as not supplied: the table is
\* returned).
C6_NonEmptyUnknownColumnRejected ==
    /\ (GroupDone /\ Loadable /\ group_by \notin {None, ""} /\ group_by \notin InputTable.cols)
       => (error = GroupByError /\ result = NoResult)
    /\ (GroupDone /\ Loadable /\ group_by = "")
       => (error = NoError /\ result.kind = "DataFrame")

\* C6 witness: group_by "Biome" on a table with an Ecosystem column
C6_Witness ==
    /\ GroupDone /\ df # None
    /\ "Ecosystem" \in before.cols /\ group_by = "Biome"
    /\ error = GroupByError /\ result = NoResult

\* the rows of a partition structure that hold row i
PartitionsOf(groups, i) == { k \in DOMAIN groups : i \in groups[k] }

\* C7, as stated: for every group_by that names a column, every row is in
\* exactly one partition, the one keyed by its own value in that column,
\* and the keys are exactly the values observed in the column.
C7_AsStated ==
    (GroupDone /\ Loadable /\ group_by # None /\ group_by \in InputTable.cols) =>
        /\ error = NoError
        /\ result.kind = "GroupBy"
        /\ LET t == heap[result.ref]
           IN  /\ \A i \in 1..NRows(t) :
                     PartitionsOf(result.groups, i) = {t.data[group_by][i]}
               /\ DOMAIN result.groups = ColumnValues(t, group_by)

\* C7, amended: for every non-empty group_by that names a column, every row
\* whose value in that column is not missing is in exactly one partition,
\* the one keyed by that value; a row whose value is missing is in none; and
\* the keys are exactly the non-missing values observed in the column (no
\* partition for a category that no row has).
C7_PartitionOfNonMissingRows ==
    (GroupDone /\ Loadable /\ group_by \notin {None, ""} /\ group_by \in InputTable.cols) =>
        /\ error = NoError
        /\ result.kind = "GroupBy"
        /\ LET t == heap[result.ref]
           IN  /\ \A i \in 1..NRows(t) :
                     PartitionsOf(result.groups, i) =
                        IF t.data[group_by][i] = NA THEN {} ELSE {t.data[group_by][i]}
               /\ DOMAIN result.groups = ColumnValues(t, group_by) \ {NA}
               /\ \A k \in DOMAIN result.groups : result.groups[k] # {}

\* C7 witness: a categorical Ecosystem with categories forest and wetland,
\* of which only forest occurs, is grouped under the one key forest
C7_Witness ==
    /\ GroupDone /\ df # None /\ group_by = "Ecosystem"
    /\ "Ecosystem" \in before.cols
    /\ before.dtype["Ecosystem"] = "category"
    /\ before.data["Ecosystem"] = <<"forest", "forest">>
    /\ result.kind = "GroupBy"
    /\ DOMAIN result.groups = {"forest"}
    /\ result.groups["forest"] = {1, 2}

\* C8, as stated: visualize_dataset fails with the validation error for
\* every group_by other than "Ecosystem", "Season" and None, a column of the
\* table or not, and shows no chart.
C8_AsStated ==
    (VizDone /\ group_by \notin {"Ecosystem", "Season", None})
    => (error = VizGroupByError /\ charts = <<>>)

\* C8, amended: in every call that gets its table (one is supplied, or
\* csv_path is read), visualize_dataset fails with the validation error for
\* every group_by other than "Ecosystem", "Season" and None, a column of the
\* table or not, and shows no chart; without a table the call has already
\* failed in loading, and shows no chart either.
C8_RejectedOnceLoaded ==
    (VizDone /\ group_by \notin {"Ecosystem", "Season", None}) =>
        /\ charts = <<>>
        /\ result = NoResult
        /\ Loadable => error = VizGroupByError
        /\ ~Loadable => error \in {ConfigError, FileNotFoundError}

\* C8 witness: group_by "P_conc", a column of the supplied table
C8_Witness ==
    /\ VizDone /\ df # None
    /\ group_by = "P_conc" /\ "P_conc" \in before.cols
    /\ error = VizGroupByError /\ charts = <<>>

\* what a chart is, leaving out which groups it has
ChartShape(ch) ==
    IF ch.kind = "boxplot" THEN <<"boxplot", ch.column, ch.by>>
    ELSE <<"scatter", ch.x, ch.y, ch.by, ch.series # AllRows>>

ChartShapes == [i \in 1..Len(charts) |-> ChartShape(charts[i])]

\* the charts the claim lists, in its order
ClaimedCharts ==
    IF group_by # None
    THEN << <<"boxplot", "flux_gm2yr", group_by>>,
            <<"scatter", "P_conc", "Ca_conc", group_by, TRUE>>,
            <<"scatter", "P_conc", "flux_gm2yr", group_by, TRUE>> >>
    ELSE << <<"scatter", "P_conc", "Ca_conc", None, FALSE>>,
            <<"scatter", "P_conc", "flux_gm2yr", None, FALSE>> >>

PassedLoadingAndValidation ==
    VizDone /\ Loadable /\ group_by \in {"Ecosystem", "Season", None}

\* C9, as stated: every call that passes loading and validation shows the
\* boxplot of flux_gm2yr by group iff group_by is given, then the scatter
\* plot P_conc vs Ca_conc, then P_conc vs flux_gm2yr: 3 charts with a
\* group_by, 2 without, each scatter plot split by group iff group_by is
\* given.
C9_AsStated ==
    PassedLoadingAndValidation =>
        /\ ChartShapes = ClaimedCharts
        /\ Len(charts) = IF group_by = None THEN 2 ELSE 3

\* the table has what the plots subscript: the three columns, numeric, and,
\* with a group_by, that column with a value in at least one row
Plottable ==
    /\ {"P_conc", "Ca_conc", "flux_gm2yr"} \subseteq InputTable.cols
    /\ \A c \in {"P_conc", "Ca_conc", "flux_gm2yr"} : InputTable.dtype[c] = "float64"
    /\ group_by # None =>
          /\ group_by \in InputTable.cols
          /\ ColumnValues(InputTable, group_by) \ {NA} # {}

\* C9, amended: every call that passes loading and validation and whose
\* table has the numeric columns P_conc, Ca_conc and flux_gm2yr and, with
\* a group_by, that column with at least one value that is not missing, shows
\* the charts of the claim in the claim's order and returns None.
C9_ChartsInOrderWhenPlottable ==
    (PassedLoadingAndValidation /\ Plottable) =>
        /\ error = NoError /\ result = PyNone
        /\ ChartShapes = ClaimedCharts
        /\ Len(charts) = IF group_by = None THEN 2 ELSE 3

\* C9 witness: three charts by Season
C9_Witness ==
    /\ VizDone /\ df # None /\ group_by = "Season"
    /\ Len(charts) = 3
    /\ charts[1].kind = "boxplot" /\ charts[2].y = "Ca_conc" /\ charts[3].y = "flux_gm2yr"
    /\ charts[3].series = {"dry"}

\* C10: group_dataset coerces Ecosystem and Season of the caller's table
\* before it validates group_by, so after a call that ended in the
\* validation error those columns of the caller's table are categorical;
\* the configuration error is raised with no table touched and nothing read.
C10_CoercedBeforeValidation ==
    GroupDone =>
        /\ (error = GroupByError /\ df # None) =>
              /\ \A c \in heap[df].cols \cap CategoricalColumns :
                    heap[df].dtype[c] = "category"
              /\ heap[df] = CoerceCategoricals(before)
        /\ error = ConfigError => (heap = EmptyHeap /\ reads = <<>> /\ df = None)

\* C10 witness: the call failed in validation and the caller's Ecosystem
\* column, object before, is categorical now
C10_Witness ==
    /\ GroupDone /\ error = GroupByError /\ df # None
    /\ "Ecosystem" \in before.cols
    /\ before.dtype["Ecosystem"] = "object"
    /\ heap[df].dtype["Ecosystem"] = "category"
    /\ heap[df] # before

====
